---- MODULE Spec2Model ----
(***************************************************************************)
(* Model of viseron's recording storage query (Recordings.get_files in     *)
(* components/storage/models.py) and of the recordings API handler         *)
(* (RecordingsAPIHandler in components/webserver/api/v1/recordings.py).    *)
(*                                                                         *)
(* Strings are sequences of character codes ("0" = 48 .. "9" = 57), so     *)
(* that the SQL text comparison is the lexicographic one.  Python floats   *)
(* are records [s |-> whole seconds, q |-> quarter seconds in 0..3].       *)
(***************************************************************************)
EXTENDS Integers, Sequences, FiniteSets, TLC

VARIABLES files, files_meta, self, now, results,
          cameras, request, responses, calls

vars == <<files, files_meta, self, now, results,
          cameras, request, responses, calls>>

storeVars == <<files, files_meta, self, now, results>>
apiVars == <<cameras, request, responses, calls>>

-----------------------------------------------------------------------------
(* Floats with quarter-second resolution.                                   *)

Flt(s, q) == [s |-> s, q |-> q]

FSub(a, b) ==
    IF a.q >= b.q THEN [s |-> a.s - b.s, q |-> a.q - b.q]
                  ELSE [s |-> a.s - b.s - 1, q |-> a.q + 4 - b.q]

FAdd(a, b) ==
    IF a.q + b.q >= 4 THEN [s |-> a.s + b.s + 1, q |-> a.q + b.q - 4]
                      ELSE [s |-> a.s + b.s, q |-> a.q + b.q]

FLe(a, b) == a.s < b.s \/ (a.s = b.s /\ a.q <= b.q)

FLt(a, b) == FLe(a, b) /\ a # b

\* Python int(x) of a non-negative float: truncation.
PyInt(x) == x.s

\* Python str(n) of a non-negative integer: its decimal digits, unpadded.
RECURSIVE PyStr(_)
PyStr(n) == IF n < 10 THEN <<48 + n>> ELSE Append(PyStr(n \div 10), 48 + (n % 10))

-----------------------------------------------------------------------------
(* Text values as the database compares them.                               *)

Min(a, b) == IF a <= b THEN a ELSE b

\* a <= b in the text ordering (lexicographic on character codes).
StrLe(a, b) ==
    \/ a = b
    \/ \E i \in 1..(Min(Len(a), Len(b)) + 1) :
          /\ \A j \in 1..(i - 1) : a[j] = b[j]
          /\ \/ i > Len(a) /\ i <= Len(b)
             \/ i <= Len(a) /\ i <= Len(b) /\ a[i] < b[i]

\* func.substr(text, from, count)
substr(text, from, count) == SubSeq(text, from, Min(Len(text), from + count - 1))

\* column.endswith(suffix)
endswith(text, suffix) ==
    /\ Len(text) >= Len(suffix)
    /\ SubSeq(text, Len(text) - Len(suffix) + 1, Len(text)) = suffix

IsDigits(text) == Len(text) > 0 /\ \A i \in 1..Len(text) : text[i] \in 48..57

RECURSIVE DigitsValue(_)
DigitsValue(text) ==
    IF Len(text) = 0 THEN 0
    ELSE 10 * DigitsValue(SubSeq(text, 1, Len(text) - 1)) + (text[Len(text)] - 48)

\* cast(text, Float): the number a digit string denotes; the database raises
\* "invalid input syntax" for any other text of the model (ok = FALSE).
CastFloat(text) ==
    IF IsDigits(text) THEN [ok |-> TRUE, v |-> Flt(DigitsValue(text), 0)]
                      ELSE [ok |-> FALSE, v |-> Flt(0, 0)]

\* SQL three-valued AND / OR over "T", "F", "N" (null).
And3(a, b) == IF a = "F" \/ b = "F" THEN "F"
              ELSE IF a = "N" \/ b = "N" THEN "N" ELSE "T"

Or3(a, b) == IF a = "T" \/ b = "T" THEN "T"
             ELSE IF a = "N" \/ b = "N" THEN "N" ELSE "F"

Bool3(b) == IF b THEN "T" ELSE "F"

-----------------------------------------------------------------------------
(* The tables.  An optional value is a set: {} is None / SQL NULL.          *)

\* A row of Files; filename is the last component of path.
FileRow(directory, filename, camera, category) ==
    [path |-> directory \o filename, directory |-> directory,
     filename |-> filename, camera_identifier |-> camera, category |-> category]

\* A row of FilesMeta; extinf is meta["m3u8"]["EXTINF"], {} when the key is absent.
MetaRow(path, extinf) == [path |-> path, extinf |-> extinf]

\* Recordings.start_time.timestamp() - lookback
WindowStart(rec, lookback) == FSub(rec.start_time, lookback)

\* end_time.timestamp(), or datetime.now().timestamp() for an open recording
WindowEnd(rec, clock) ==
    IF rec.end_time = {} THEN clock ELSE CHOOSE e \in rec.end_time : TRUE

\* select(Files, FilesMeta).join(FilesMeta, Files.path == FilesMeta.path)
Joined == {<<f, m>> \in files \X files_meta : f.path = m.path}

M4S == <<46, 109, 52, 115>>   \* ".m4s"

\* Candidate without the category filter.
CandidateAnyCategory(rec, f) ==
    /\ f.camera_identifier = rec.camera_identifier
    /\ endswith(f.path, M4S)

\* The three column filters of the statement.
Candidate(rec, f) ==
    /\ f.camera_identifier = rec.camera_identifier
    /\ f.category = "recorder"
    /\ endswith(f.path, M4S)

\* substr(filename, 1, 10) BETWEEN str(int(start)) AND str(int(end)), on text
InRecording(f, start, end) ==
    LET x == substr(f.filename, 1, 10)
    IN  StrLe(PyStr(PyInt(start)), x) /\ StrLe(x, PyStr(PyInt(end)))

\* start >= cast(prefix) AND start <= cast(prefix) + cast(EXTINF), three-valued;
\* evaluated only for a prefix the cast accepts.
BeforeRecording(f, m, start) ==
    LET t == CastFloat(substr(f.filename, 1, 10)).v
    IN  And3(Bool3(FLe(t, start)),
             IF m.extinf = {} THEN "N"
             ELSE Bool3(FLe(start, FAdd(t, CHOOSE d \in m.extinf : TRUE))))

\* The OR of the two rules for one joined row: "T", "F", "N", or "E" when the
\* cast raises.  The database may skip the second arm once the first is true
\* (shortCircuit) or evaluate both; the statement does not fix which.
WhereRow(f, m, start, end, shortCircuit) ==
    IF InRecording(f, start, end) /\ shortCircuit THEN "T"
    ELSE IF ~CastFloat(substr(f.filename, 1, 10)).ok THEN "E"
    ELSE Or3(Bool3(InRecording(f, start, end)), BeforeRecording(f, m, start))

\* The rows in any order: the statement without its ORDER BY.
Unordered(rows) ==
    {p \in [1..Cardinality(rows) -> rows] :
        \A i, j \in 1..Cardinality(rows) : i # j => p[i] # p[j]}

\* .order_by(Files.filename.asc()): every ordering of the rows that is
\* ascending in filename (rows of equal filename come in either order).
OrderBy(rows) ==
    {p \in [1..Cardinality(rows) -> rows] :
        /\ \A i, j \in 1..Cardinality(rows) : i # j => p[i] # p[j]
        /\ \A i, j \in 1..Cardinality(rows) :
              i < j => StrLe(p[i][1].filename, p[j][1].filename)}

\* Recordings.get_files: the set of outcomes the call can have.  An outcome
\* is [error |-> TRUE] with no rows when the statement raises, else the list.
get_files(rec, lookback, clock) ==
    LET start == WindowStart(rec, lookback)
        end == WindowEnd(rec, clock)
        cand == {r \in Joined : Candidate(rec, r[1])}
        Run(sc) ==
            IF \E r \in cand : WhereRow(r[1], r[2], start, end, sc) = "E"
            THEN {[error |-> TRUE, rows |-> <<>>]}
            ELSE {[error |-> FALSE, rows |-> p] :
                    p \in OrderBy({r \in cand :
                                     WhereRow(r[1], r[2], start, end, sc) = "T"})}
    IN  Run(TRUE) \cup Run(FALSE)

-----------------------------------------------------------------------------
(* The inputs: stored rows, recordings, lookbacks and clock readings.       *)

MaxFiles == 2

\* Unix seconds k after 2001-09-09 01:46:40, the first ten-digit timestamp.
At(k) == 1000000000 + k

RECURSIVE PadTo(_, _)
PadTo(text, width) == IF Len(text) >= width THEN text ELSE PadTo(<<48>> \o text, width)

\* A fragment filename as the recorder writes it: the start time as ten
\* zero-padded digits, then the extension.
FragmentName(t, ext) == PadTo(PyStr(t), 10) \o ext

DirA == <<47, 97, 47>>         \* "/a/"
DirB == <<47, 98, 47>>         \* "/b/"
MP4 == <<46, 109, 112, 52>>    \* ".mp4"

\* "100000001x.m4s": a name whose first ten characters are not a number.
BadName == SubSeq(FragmentName(At(10), M4S), 1, 9) \o <<120>> \o M4S

Entry(f, extinf) == [file |-> f, meta |-> {MetaRow(f.path, extinf)}]
NoMeta(f) == [file |-> f, meta |-> {}]
Fragment(t) == FileRow(DirA, FragmentName(t, M4S), "cam1", "recorder")

Pool ==
    { Entry(Fragment(At(-60)), {Flt(50, 0)}),
      Entry(Fragment(At(-10)), {Flt(20, 0)}),
      Entry(Fragment(At(-5)), {Flt(20, 0)}),
      Entry(Fragment(At(0)), {Flt(10, 0)}),
      Entry(Fragment(At(5)), {}),
      Entry(Fragment(At(10)), {Flt(0, 1)}),
      Entry(Fragment(At(20)), {}),
      Entry(Fragment(At(40)), {Flt(10, 0)}),
      NoMeta(FileRow(DirB, FragmentName(At(20), M4S), "cam1", "recorder")),
      Entry(FileRow(DirA, BadName, "cam1", "recorder"), {Flt(10, 0)}),
      Entry(FileRow(DirB, FragmentName(At(20), M4S), "cam2", "recorder"), {Flt(10, 0)}),
      Entry(FileRow(DirB, FragmentName(At(25), M4S), "cam1", "thumbnails"), {Flt(10, 0)}),
      Entry(FileRow(DirA, FragmentName(At(20), MP4), "cam1", "recorder"), {Flt(10, 0)}) }

Stores == {S \in SUBSET Pool : Cardinality(S) <= MaxFiles}

RecordingsPool ==
    [camera_identifier : {"cam1"},
     start_time : {Flt(At(0), 0), Flt(At(10), 0), Flt(At(10), 2)},
     end_time : {{}, {Flt(At(30), 0)}}]

Lookbacks == {Flt(0, 0), Flt(5, 0), Flt(10, 0)}

ClockReadings == {Flt(At(30), 3), Flt(At(50), 0)}

NoResults == [l \in Lookbacks |-> {}]

\* A request as routed to a handler method, with its arguments.
Request(method, camera_identifier, date, filename, latest, daily) ==
    [method |-> method, camera_identifier |-> camera_identifier, date |-> date,
     filename |-> filename, latest |-> latest, daily |-> daily]

NoRequest == Request("None", "None", "None", "None", FALSE, FALSE)

InitStore ==
    /\ \E S \in Stores :
          /\ files = {e.file : e \in S}
          /\ files_meta = UNION {e.meta : e \in S}
    /\ self \in RecordingsPool
    /\ now = Flt(At(30), 3)
    /\ results = NoResults

InitAPIIdle ==
    /\ cameras = {}
    /\ request = NoRequest
    /\ responses = <<>>
    /\ calls = <<>>

Init == InitStore /\ InitAPIIdle

\* A caller invokes self.get_files(lookback, get_session).
GetFiles(lookback) ==
    /\ \E out \in get_files(self, lookback, now) :
          results' = [results EXCEPT ![lookback] = {out}]
    /\ UNCHANGED <<files, files_meta, self, now, apiVars>>

\* Time passes; results are those of the calls made at the current reading.
Tick ==
    /\ \E t \in ClockReadings : FLt(now, t) /\ now' = t
    /\ results' = NoResults
    /\ UNCHANGED <<files, files_meta, self, apiVars>>

Next == (\E lookback \in Lookbacks : GetFiles(lookback)) \/ Tick

Spec == Init /\ [][Next]_vars

-----------------------------------------------------------------------------
(* RecordingsAPIHandler.  A handler run is one action: it leaves the request *)
(* it served, the responses it sent and the recorder calls it made, in       *)
(* order.  None is the string "None".                                       *)

CameraIds == {"cam1", "cam2", "cam3"}
Registered == {"cam1", "cam2"}
Dates == {"None", "2023-03-01"}
Filenames == {"None", "clip.mp4"}

Call(camera, method, args, returned) ==
    [camera |-> camera, method |-> method, args |-> args, returned |-> returned]

ResponseError(status) == [kind |-> "error", status |-> status]
ResponseSuccess == [kind |-> "success", status |-> "OK"]

Run(resp, made) == [responses |-> resp, calls |-> made]

\* The recorder method one camera is asked for, by the request arguments.
RecorderMethod(latest, daily) ==
    IF latest /\ daily THEN "get_latest_recording_daily"
    ELSE IF latest THEN "get_latest_recording"
    ELSE "get_recordings"

\* get_recordings: order is the iteration order of cameras.values().
get_recordings(cams, latest, daily, order) ==
    IF cams = {}
    THEN Run(<<ResponseError("ENDPOINT_NOT_FOUND")>>, <<>>)
    ELSE Run(<<ResponseSuccess>>,
             [i \in 1..Len(order) |->
                Call(order[i], RecorderMethod(latest, daily), <<>>, "data")])

\* get_recordings_camera: daily takes no date argument.
get_recordings_camera(cams, camera_identifier, date, latest, daily) ==
    IF camera_identifier \notin cams
    THEN Run(<<ResponseError("ENDPOINT_NOT_FOUND")>>, <<>>)
    ELSE Run(<<ResponseSuccess>>,
             <<Call(camera_identifier, RecorderMethod(latest, daily),
                    IF latest /\ daily THEN <<>> ELSE <<date>>, "data")>>)

\* delete_recording calling the recorder before it looks at the camera.
delete_recording_unchecked(cams, camera_identifier, date, filename, deleted) ==
    Run(<<IF camera_identifier \notin cams THEN ResponseError("ENDPOINT_NOT_FOUND")
          ELSE IF deleted THEN ResponseSuccess ELSE ResponseError("INTERNAL")>>,
        <<Call(camera_identifier, "delete_recording", <<date, filename>>,
               IF deleted THEN "True" ELSE "False")>>)

\* delete_recording answering success whatever the recorder returned.
delete_recording_unconditional(cams, camera_identifier, date, filename, deleted) ==
    IF camera_identifier \notin cams
    THEN Run(<<ResponseError("ENDPOINT_NOT_FOUND")>>, <<>>)
    ELSE Run(<<ResponseSuccess>>,
             <<Call(camera_identifier, "delete_recording", <<date, filename>>,
                    IF deleted THEN "True" ELSE "False")>>)

\* delete_recording: deleted is what camera.recorder.delete_recording returns.
delete_recording(cams, camera_identifier, date, filename, deleted) ==
    IF camera_identifier \notin cams
    THEN Run(<<ResponseError("ENDPOINT_NOT_FOUND")>>, <<>>)
    ELSE Run(<<IF deleted THEN ResponseSuccess ELSE ResponseError("INTERNAL")>>,
             <<Call(camera_identifier, "delete_recording", <<date, filename>>,
                    IF deleted THEN "True" ELSE "False")>>)

\* The iteration orders of a camera set.
Orders(cams) ==
    {o \in [1..Cardinality(cams) -> cams] :
        \A i, j \in 1..Cardinality(cams) : i # j => o[i] # o[j]}

InitStoreIdle ==
    /\ files = {}
    /\ files_meta = {}
    /\ self = [camera_identifier |-> "cam1", start_time |-> Flt(At(0), 0),
               end_time |-> {}]
    /\ now = Flt(At(30), 3)
    /\ results = NoResults

InitAPI ==
    /\ cameras \in SUBSET Registered
    /\ request = NoRequest
    /\ responses = <<>>
    /\ calls = <<>>
    /\ InitStoreIdle

Serve(req, run) ==
    /\ request' = req
    /\ responses' = run.responses
    /\ calls' = run.calls
    /\ UNCHANGED <<cameras, storeVars>>

\* GET /recordings ; 'daily' only together with 'latest'.
GetRecordings ==
    \E latest, daily \in BOOLEAN, order \in Orders(cameras) :
        /\ daily => latest
        /\ Serve(Request("get_recordings", "None", "None", "None", latest, daily),
                 get_recordings(cameras, latest, daily, order))

\* GET /recordings/<camera>[/<date>] ; the dated route knows no 'daily'.
GetRecordingsCamera ==
    \E camera_identifier \in CameraIds, date \in Dates, latest, daily \in BOOLEAN :
        /\ daily => latest /\ date = "None"
        /\ Serve(Request("get_recordings_camera", camera_identifier, date, "None",
                         latest, daily),
                 get_recordings_camera(cameras, camera_identifier, date, latest, daily))

\* DELETE /recordings/<camera>[/<date>[/<filename>]]
DeleteRecording ==
    \E camera_identifier \in CameraIds, date \in Dates, filename \in Filenames,
       deleted \in BOOLEAN :
        /\ filename # "None" => date # "None"
        /\ Serve(Request("delete_recording", camera_identifier, date, filename,
                         FALSE, FALSE),
                 delete_recording(cameras, camera_identifier, date, filename, deleted))

NextAPI == GetRecordings \/ GetRecordingsCamera \/ DeleteRecording

SpecAPI == InitAPI /\ [][NextAPI]_vars

-----------------------------------------------------------------------------
(* Properties of Recordings.get_files, over the calls made so far.          *)

Range(seq) == {seq[i] : i \in 1..Len(seq)}

Decodable(f) == IsDigits(substr(f.filename, 1, 10))

\* The encoded start time of a fragment whose prefix is a number.
StartOf(f) == Flt(DigitsValue(substr(f.filename, 1, 10)), 0)

\* The outcomes of the calls made with lookback l that returned a list.
Returned(l) == {out \in results[l] : ~out.error}

\* The joined rows that pass the camera, category and suffix filters.
CandidateRows == {r \in Joined : Candidate(self, r[1])}

\* s <= t_f <= e, on numbers.
StartsInWindow(f, l) ==
    FLe(WindowStart(self, l), StartOf(f)) /\ FLe(StartOf(f), WindowEnd(self, now))

\* t_f < s and t_f + d_f >= s, on numbers; false without a duration.
CoversWindowStart(f, m, l) ==
    /\ FLt(StartOf(f), WindowStart(self, l))
    /\ \E d \in m.extinf : FLe(WindowStart(self, l), FAdd(StartOf(f), d))

\* C1: a candidate fragment with a decodable start and a duration is returned
\* if and only if it starts inside the window or starts before the window
\* start and its play interval reaches the window start.
C1_InclusionRule ==
    \A l \in Lookbacks : \A out \in Returned(l) : \A r \in CandidateRows :
        (Decodable(r[1]) /\ r[2].extinf # {}) =>
            (r \in Range(out.rows) <=>
                (StartsInWindow(r[1], l) \/ CoversWindowStart(r[1], r[2], l)))

\* C2: the filename prefix and the two rendered window bounds have the same
\* number of characters, and the text range test agrees with s <= t_f <= e.
C2_TextOrderIsNumericOrder ==
    \A l \in Lookbacks : \A out \in Returned(l) : \A r \in CandidateRows :
        Decodable(r[1]) =>
            /\ Len(PyStr(PyInt(WindowStart(self, l)))) = Len(substr(r[1].filename, 1, 10))
            /\ Len(PyStr(PyInt(WindowEnd(self, now)))) = Len(substr(r[1].filename, 1, 10))
            /\ InRecording(r[1], WindowStart(self, l), WindowEnd(self, now))
                  <=> StartsInWindow(r[1], l)

\* C3: the returned list is ascending in encoded start time.
C3_SortedByStart ==
    \A l \in Lookbacks : \A out \in Returned(l) :
        \A i, j \in 1..Len(out.rows) :
            (i < j /\ Decodable(out.rows[i][1]) /\ Decodable(out.rows[j][1]))
                => FLe(StartOf(out.rows[i][1]), StartOf(out.rows[j][1]))

\* A call returned two fragments of different start times.
C3_Witness ==
    \E l \in Lookbacks : \E out \in Returned(l) :
        /\ Len(out.rows) >= 2
        /\ Decodable(out.rows[1][1]) /\ Decodable(out.rows[2][1])
        /\ FLt(StartOf(out.rows[1][1]), StartOf(out.rows[2][1]))

\* C4: at most one returned fragment starts strictly before the window start,
\* and a returned fragment that does so reaches the window start.
C4_SinglePreWindowFragment ==
    \A l \in Lookbacks : \A out \in Returned(l) :
        LET pre == {r \in Range(out.rows) :
                      Decodable(r[1]) /\ FLt(StartOf(r[1]), WindowStart(self, l))}
        IN  /\ Cardinality(pre) <= 1
            /\ \A r \in pre : r[2].extinf # {} => CoversWindowStart(r[1], r[2], l)

\* C5: every returned pair is a Files row of the recording's camera, of
\* category "recorder", with a path ending in ".m4s", together with the
\* FilesMeta row of the same path.
C5_OnlyJoinedCandidates ==
    \A l \in Lookbacks : \A out \in Returned(l) : \A r \in Range(out.rows) :
        /\ r[1] \in files /\ r[2] \in files_meta
        /\ r[1].camera_identifier = self.camera_identifier
        /\ r[1].category = "recorder"
        /\ endswith(r[1].path, M4S)
        /\ r[2].path = r[1].path

\* A call returned a fragment while the store held a row it had to leave out:
\* one of another camera, category or suffix, or one without a FilesMeta row.
C5_Witness ==
    \E l \in Lookbacks : \E out \in Returned(l) :
        /\ Len(out.rows) >= 1
        /\ \E f \in files :
              /\ \/ f.camera_identifier # self.camera_identifier
                 \/ f.category # "recorder"
                 \/ ~endswith(f.path, M4S)
                 \/ \A m \in files_meta : m.path # f.path
              /\ Decodable(f) /\ StartsInWindow(f, l)

\* C6: a call never aborts and never returns a fragment whose prefix does not
\* decode; the decodable fragments are returned by the inclusion rule.
C6_UndecodableSkipped ==
    \A l \in Lookbacks : \A out \in results[l] :
        /\ ~out.error
        /\ \A r \in Range(out.rows) : Decodable(r[1])

\* C7: a returned fragment without a duration starts inside the window, and
\* a candidate without a duration that starts inside the window is returned.
C7_MissingDuration ==
    \A l \in Lookbacks : \A out \in Returned(l) : \A r \in CandidateRows :
        (Decodable(r[1]) /\ r[2].extinf = {}) =>
            /\ (r \in Range(out.rows) /\ FLt(StartOf(r[1]), WindowStart(self, l)))
                  => InRecording(r[1], WindowStart(self, l), WindowEnd(self, now))
            /\ StartsInWindow(r[1], l) => r \in Range(out.rows)

\* C10: a fragment returned with a lookback is returned with every larger one.
C10_LookbackMonotone ==
    \A l1, l2 \in Lookbacks : \A o1 \in Returned(l1) : \A o2 \in Returned(l2) :
        FLe(l1, l2) => Range(o1.rows) \subseteq Range(o2.rows)

-----------------------------------------------------------------------------
(* Properties of the API handler, over the request served last.             *)

\* The camera lookup of the request served last found nothing.
CameraMissing ==
    \/ /\ request.method \in {"get_recordings_camera", "delete_recording"}
       /\ request.camera_identifier \notin cameras
    \/ request.method = "get_recordings" /\ cameras = {}

\* C8: when the camera (or, for get_recordings, every camera) is missing, the
\* handler sends exactly one not-found error and calls no recorder.
C8_MissingCameraNotFound ==
    CameraMissing =>
        /\ responses = <<ResponseError("ENDPOINT_NOT_FOUND")>>
        /\ calls = <<>>

\* A delete for an unregistered camera was served.
C8_Witness ==
    /\ request.method = "delete_recording"
    /\ request.camera_identifier \notin cameras
    /\ Len(responses) = 1

\* C9: a delete for an existing camera makes exactly one recorder delete call,
\* with the request's date and filename, and sends exactly one response:
\* success if and only if the call returned True, else an internal error.
C9_DeleteOnceOneResponse ==
    (request.method = "delete_recording" /\ request.camera_identifier \in cameras) =>
        /\ Len(calls) = 1
        /\ calls[1].camera = request.camera_identifier
        /\ calls[1].method = "delete_recording"
        /\ calls[1].args = <<request.date, request.filename>>
        /\ Len(responses) = 1
        /\ responses[1] = ResponseSuccess <=> calls[1].returned = "True"
        /\ responses[1] # ResponseSuccess => responses[1] = ResponseError("INTERNAL")

\* A delete for an existing camera was served and the recorder returned False.
C9_Witness ==
    /\ request.method = "delete_recording"
    /\ request.camera_identifier \in cameras
    /\ Len(calls) = 1 /\ calls[1].returned = "False"

====
